---- MODULE Spec2Model ----
(***************************************************************************)
(* mongo::AtomicIntrinsics (src/mongo/platform/atomic_intrinsics_gcc.h).   *)
(*                                                                         *)
(* One shared cell (*dest) of a word type T and a set of threads calling   *)
(* compareAndSwap, swap, load, loadRelaxed, store and fetchAndAdd on it.   *)
(* The header holds two class templates (the primary one for               *)
(* sizeof(T) <= sizeof(void*), the specialization for larger T) and, in    *)
(* each function, two bodies selected by #if defined(__arm__).  Which      *)
(* class and which body are in force is fixed per run: the variables       *)
(* large and arm.  In the models of the calls on the cell, memory is       *)
(* sequentially consistent and the fences of load and store are not        *)
(* state; the model of load and store among a thread's ordinary memory     *)
(* accesses (the last specification) has the fences as instructions and    *)
(* lets a thread's accesses take effect out of program order.              *)
(***************************************************************************)
EXTENDS Integers, FiniteSets, Sequences, TLC

\* ------------------------------------------------------------------ bounds

\* Number of values of one native-width half of an oversized word.
HalfMod == 2
\* Threads of the interleaving models.
NumThreads == 2
\* Calls issued in one run: of the general model, of the scripted ones.
MaxCalls == 2
MaxScriptCalls == 3

\* Number of values of the (scaled-down) word type: two halves.
WordMod == HalfMod * HalfMod

Threads == 1..NumThreads

\* "no value": a void return, a local not yet assigned.
NoValue == 0 - 1

\* ------------------------------------------------------- words and halves

\* The two native-width halves of an oversized word, as (%reg) and 4(%reg).
Lo(w) == w % HalfMod
Hi(w) == w \div HalfMod
Word(lo, hi) == hi * HalfMod + lo

VARIABLES
    arm,        \* TRUE: built with __arm__ defined; FALSE: the x86 bodies
    large,      \* TRUE: sizeof(T) > sizeof(void*), the specialization
    modulus,    \* number of values of T (2^bits): arithmetic on T wraps
    cell,       \* *dest
    cell0,      \* the value the cell was constructed with
    pc,         \* per thread: where it stands in its current call
    call,       \* per thread: the call in progress (or the last one returned)
    expected,   \* per thread: the local `expected` of the oversized loops
    result,     \* per thread: the value its last call returned
    left,       \* per thread: calls it may still issue
    asked,      \* cell0 and every value an operation was asked to write
    noted,      \* what the caller of a scripted run holds to compare with
    stale,      \* per thread, history: since the first read of its current
                \* loop iteration another thread changed the cell's value
    data,       \* an ordinary memory location the callers share
    ran         \* per thread: for each instruction of its straight-line
                \* program, NoValue until it has taken effect, then the
                \* value it read or wrote (0 for a fence)

vars == <<arm, large, modulus, cell, cell0, pc, call, expected, result, left,
          asked, noted, stale, data, ran>>

\* ------------------------------------------------ the hardware primitives

\* lock cmpxchg %[src], %[dest] with the accumulator holding `eax`:
\* if *dest = eax then *dest := src, else eax := *dest.
Cmpxchg(mem, eax, src) ==
    IF mem = eax THEN [mem |-> src, eax |-> eax]
                 ELSE [mem |-> mem, eax |-> mem]

\* A cmpxchg8b that compares the low halves only (as a 32-bit cmpxchg would).
Cmpxchg8bLowCompare(mem, eax, edx, ebx, ecx) ==
    IF Lo(mem) = eax
        THEN [mem |-> Word(ebx, ecx), eax |-> eax, edx |-> edx]
        ELSE [mem |-> mem, eax |-> Lo(mem), edx |-> Hi(mem)]

\* A cmpxchg8b sequence that leaves ecx unloaded: the high half stored is the
\* one of edx (the expected value), not the one of the new value.
Cmpxchg8bHighFromExpected(mem, eax, edx, ebx, ecx) ==
    IF Lo(mem) = eax /\ Hi(mem) = edx
        THEN [mem |-> Word(ebx, edx), eax |-> eax, edx |-> edx]
        ELSE [mem |-> mem, eax |-> Lo(mem), edx |-> Hi(mem)]

\* lock cmpxchg8b (%esi): compares edx:eax with the 64-bit operand; if equal
\* stores ecx:ebx into it, else loads it into edx:eax.
Cmpxchg8b(mem, eax, edx, ebx, ecx) ==
    IF Lo(mem) = eax /\ Hi(mem) = edx
        THEN [mem |-> Word(ebx, ecx), eax |-> eax, edx |-> edx]
        ELSE [mem |-> mem, eax |-> Lo(mem), edx |-> Hi(mem)]

\* __sync_bool_compare_and_swap in its place: returns whether it swapped.
SyncBoolCompareAndSwap(mem, exp, new) ==
    [mem |-> IF mem = exp THEN new ELSE mem, ret |-> IF mem = exp THEN 1 ELSE 0]

\* __sync_val_compare_and_swap(dest, expected, newValue): returns the
\* contents of *dest before the operation.
SyncValCompareAndSwap(mem, exp, new) ==
    [mem |-> IF mem = exp THEN new ELSE mem, ret |-> mem]

\* __sync_add_and_fetch in its place: returns the value after the addition.
SyncAddAndFetch(mem, inc, m) ==
    [mem |-> (mem + inc) % m, ret |-> (mem + inc) % m]

\* __sync_fetch_and_add(dest, increment) on a word of `m` values.
SyncFetchAndAdd(mem, inc, m) ==
    [mem |-> (mem + inc) % m, ret |-> mem]

\* lock xadd %[src], %[dest]: the sum goes to *dest, the old *dest to src.
Xadd(mem, src, m) ==
    [mem |-> (mem + src) % m, src |-> mem]

\* xchg %[r], %[dest]
Xchg(mem, r) ==
    [mem |-> r, r |-> mem]

\* __sync_lock_test_and_set(dest, newValue): writes newValue, returns the
\* previous contents.
SyncLockTestAndSet(mem, new) ==
    [mem |-> new, ret |-> mem]

\* __sync_lock_release(dest): writes the constant 0 to *dest.
SyncLockRelease(mem) == 0

\* ------------------------------ compareAndSwap of the two class templates

\* AtomicIntrinsics<T>::compareAndSwap: [mem: the cell after, result].
NativeCompareAndSwap(isArm, mem, exp, new) ==
    IF isArm
        THEN LET r == SyncValCompareAndSwap(mem, exp, new)
             IN  [mem |-> r.mem, result |-> r.ret]
        ELSE LET r == Cmpxchg(mem, exp, new)
             IN  [mem |-> r.mem, result |-> r.eax]

\* AtomicIntrinsics<T, large>::compareAndSwap: result starts as expected,
\* ecx:ebx := newValue, edx:eax := result, cmpxchg8b, result := edx:eax.
LargeCompareAndSwap(isArm, mem, exp, new) ==
    IF isArm
        THEN LET r == SyncValCompareAndSwap(mem, exp, new)
             IN  [mem |-> r.mem, result |-> r.ret]
        ELSE LET r == Cmpxchg8b(mem, Lo(exp), Hi(exp), Lo(new), Hi(new))
             IN  [mem |-> r.mem, result |-> Word(r.eax, r.edx)]

\* A load written as compareAndSwap(value, T(0), T(1)).
LoadCasArgsOne == [expected |-> 0, newValue |-> 1]

\* The oversized load is compareAndSwap(value, T(0), T(0)).
LoadCasArgs == [expected |-> 0, newValue |-> 0]

\* A load written as an exchange with T(0).
LargeLoadExchange(isArm, mem) ==
    [mem |-> 0, result |-> mem]

\* AtomicIntrinsics<T, large>::load: [mem: the cell after, result].
LargeLoad(isArm, mem) ==
    LargeCompareAndSwap(isArm, mem, LoadCasArgs.expected, LoadCasArgs.newValue)

\* ------------------------------------------------------------- the calls

Values == 0..(modulus - 1)

\* The arguments the callers pass: 0 and the largest value of T (as an
\* increment, -1).
ArgValues == {0, modulus - 1}

Call(op, exp, new, inc) ==
    [op |-> op, expected |-> exp, newValue |-> new, increment |-> inc]

NoCall == Call("none", NoValue, NoValue, NoValue)

CasCalls == {Call("compareAndSwap", e, n, NoValue) : e \in ArgValues, n \in ArgValues}
SwapCalls == {Call("swap", NoValue, n, NoValue) : n \in ArgValues}
StoreCalls == {Call("store", NoValue, n, NoValue) : n \in ArgValues}
LoadCalls == {Call("load", NoValue, NoValue, NoValue)}
LoadRelaxedCalls == {Call("loadRelaxed", NoValue, NoValue, NoValue)}
FetchAndAddCalls == {Call("fetchAndAdd", NoValue, NoValue, i) : i \in ArgValues}

\* The specialization for oversized T declares no loadRelaxed.
Declared(isLarge, op) == ~(isLarge /\ op = "loadRelaxed")

\* Where a call of `op` starts: the first shared-memory step of its body.
\* The oversized store is swap(dest, newValue).
EntryPc(isLarge, op) ==
    IF ~isLarge THEN op
    ELSE CASE op = "compareAndSwap" -> "L_compareAndSwap"
           [] op = "swap"           -> "L_swap_read"
           [] op = "store"          -> "L_swap_read"
           [] op = "load"           -> "L_load"
           [] op = "fetchAndAdd"    -> "L_fetchAndAdd_load"

\* The values a call is asked to write when it is issued.
AskedBy(c) ==
    IF c.op \in {"compareAndSwap", "swap", "store"} THEN {c.newValue} ELSE {}

\* Thread t enters call c.
Begin(t, c) ==
    /\ pc[t] = "idle"
    /\ left[t] > 0
    /\ Declared(large, c.op)
    /\ pc' = [pc EXCEPT ![t] = EntryPc(large, c.op)]
    /\ call' = [call EXCEPT ![t] = c]
    /\ left' = [left EXCEPT ![t] = @ - 1]
    /\ expected' = [expected EXCEPT ![t] = NoValue]
    /\ result' = [result EXCEPT ![t] = NoValue]
    /\ asked' = asked \cup AskedBy(c)
    /\ UNCHANGED <<arm, large, modulus, cell, cell0, stale, data, ran>>

\* Thread t returns v from its call.
Return(t, v) ==
    /\ pc' = [pc EXCEPT ![t] = "idle"]
    /\ result' = [result EXCEPT ![t] = v]
    /\ expected' = [expected EXCEPT ![t] = NoValue]

\* Where a thread stands between the first read of an iteration of the
\* oversized swap or fetchAndAdd loop and that iteration's compareAndSwap.
MidIteration ==
    {"L_swap_read_hi", "L_swap_read_lo", "L_swap_cas", "L_fetchAndAdd_cas"}

\* The history variable: a step that changes the cell's value is seen by
\* every thread that stays inside an iteration across it.  The thread that
\* takes the step is never one of them: its first read leaves the cell as
\* it is and its compareAndSwap ends its iteration.
Witnessed ==
    stale' = [u \in DOMAIN stale |->
                 /\ pc[u] \in MidIteration
                 /\ pc'[u] \in MidIteration
                 /\ (stale[u] \/ cell' # cell)]

Frame ==
    /\ UNCHANGED <<arm, large, modulus, cell0, call, left, noted, data, ran>>
    /\ Witnessed

\* --------------------------------- AtomicIntrinsics<T>: native-width words

NativeCompareAndSwapStep(t) ==
    /\ pc[t] = "compareAndSwap"
    /\ LET r == NativeCompareAndSwap(arm, cell, call[t].expected, call[t].newValue)
       IN  cell' = r.mem /\ Return(t, r.result)
    /\ UNCHANGED asked /\ Frame

\* swap, x86 body: one xchg.
NativeSwapXchg(t) ==
    /\ pc[t] = "swap" /\ ~arm
    /\ LET r == Xchg(cell, call[t].newValue)
       IN  cell' = r.mem /\ Return(t, r.r)
    /\ UNCHANGED asked /\ Frame

\* swap, ARM body, first statement: result = __sync_lock_test_and_set(...).
NativeSwapTestAndSet(t) ==
    /\ pc[t] = "swap" /\ arm
    /\ LET r == SyncLockTestAndSet(cell, call[t].newValue)
       IN  /\ cell' = r.mem
           /\ result' = [result EXCEPT ![t] = r.ret]
    /\ pc' = [pc EXCEPT ![t] = "swap_release"]
    /\ UNCHANGED <<asked, expected>> /\ Frame

\* swap, ARM body, second statement: __sync_lock_release(dest); return result.
NativeSwapLockRelease(t) ==
    /\ pc[t] = "swap_release"
    /\ cell' = SyncLockRelease(cell)
    /\ Return(t, result[t])
    /\ UNCHANGED asked /\ Frame

NativeLoad(t) ==
    /\ pc[t] = "load"
    /\ Return(t, cell)
    /\ UNCHANGED <<cell, asked>> /\ Frame

NativeLoadRelaxed(t) ==
    /\ pc[t] = "loadRelaxed"
    /\ Return(t, cell)
    /\ UNCHANGED <<cell, asked>> /\ Frame

NativeStore(t) ==
    /\ pc[t] = "store"
    /\ cell' = call[t].newValue
    /\ Return(t, NoValue)
    /\ UNCHANGED asked /\ Frame

\* A fetchAndAdd that saturates at the largest value of T instead of wrapping.
NativeFetchAndAddSaturating(isArm, mem, inc, m) ==
    [mem |-> IF mem + inc >= m THEN m - 1 ELSE mem + inc, result |-> mem]

\* AtomicIntrinsics<T>::fetchAndAdd: [mem: the cell after, result].
NativeFetchAndAdd(isArm, mem, inc, m) ==
    IF isArm
        THEN LET r == SyncFetchAndAdd(mem, inc, m)
             IN  [mem |-> r.mem, result |-> r.ret]
        ELSE LET r == Xadd(mem, inc, m)
             IN  [mem |-> r.mem, result |-> r.src]

NativeFetchAndAddStep(t) ==
    /\ pc[t] = "fetchAndAdd"
    /\ LET r == NativeFetchAndAdd(arm, cell, call[t].increment, modulus)
       IN  /\ cell' = r.mem
           /\ asked' = asked \cup {r.mem}
           /\ Return(t, r.result)
    /\ Frame

\* ------------------------ AtomicIntrinsics<T, large>: oversized words

LargeCompareAndSwapStep(t) ==
    /\ pc[t] = "L_compareAndSwap"
    /\ LET r == LargeCompareAndSwap(arm, cell, call[t].expected, call[t].newValue)
       IN  cell' = r.mem /\ Return(t, r.result)
    /\ UNCHANGED asked /\ Frame

\* swap: expected = *dest.  A plain read of a word wider than a register is
\* two native-width reads, in an order the compiler chooses.  This is the
\* first of them; the half not yet read is left 0 in `expected`.
LargeSwapReadFirst(t) ==
    /\ pc[t] = "L_swap_read"
    /\ \/ /\ expected' = [expected EXCEPT ![t] = Word(Lo(cell), 0)]
          /\ pc' = [pc EXCEPT ![t] = "L_swap_read_hi"]
       \/ /\ expected' = [expected EXCEPT ![t] = Word(0, Hi(cell))]
          /\ pc' = [pc EXCEPT ![t] = "L_swap_read_lo"]
    /\ UNCHANGED <<cell, result, asked>> /\ Frame

\* A plain read that fetches the low half of the cell into both halves of
\* `expected`.
LargeSwapReadSecondLowTwice(t) ==
    /\ pc[t] \in {"L_swap_read_hi", "L_swap_read_lo"}
    /\ expected' = [expected EXCEPT ![t] = Word(Lo(cell), Lo(cell))]
    /\ pc' = [pc EXCEPT ![t] = "L_swap_cas"]
    /\ UNCHANGED <<cell, result, asked>> /\ Frame

\* swap: expected = *dest, the second native-width read.
LargeSwapReadSecond(t) ==
    /\ pc[t] \in {"L_swap_read_hi", "L_swap_read_lo"}
    /\ expected' = [expected EXCEPT ![t] =
                        IF pc[t] = "L_swap_read_hi"
                            THEN Word(Lo(@), Hi(cell))
                            ELSE Word(Lo(cell), Hi(@))]
    /\ pc' = [pc EXCEPT ![t] = "L_swap_cas"]
    /\ UNCHANGED <<cell, result, asked>> /\ Frame

\* A swap without its loop: one compareAndSwap, whose value is returned
\* whether or not it took effect.
LargeSwapCasNoRetry(t) ==
    /\ pc[t] = "L_swap_cas"
    /\ LET r == LargeCompareAndSwap(arm, cell, expected[t], call[t].newValue)
       IN  /\ cell' = r.mem
           /\ Return(t, IF call[t].op = "store" THEN NoValue ELSE r.result)
    /\ UNCHANGED asked /\ Frame

\* A swap that writes newValue with a plain store instead of a
\* compareAndSwap and returns what it read.
LargeSwapCasPlainStore(t) ==
    /\ pc[t] = "L_swap_cas"
    /\ cell' = call[t].newValue
    /\ Return(t, IF call[t].op = "store" THEN NoValue ELSE expected[t])
    /\ UNCHANGED asked /\ Frame

\* A swap whose plain read is made once, before the loop: a failed
\* compareAndSwap is repeated with the same `expected`.
LargeSwapCasKeepExpected(t) ==
    /\ pc[t] = "L_swap_cas"
    /\ LET r == LargeCompareAndSwap(arm, cell, expected[t], call[t].newValue)
           actual == r.result
       IN  /\ cell' = r.mem
           /\ IF actual # expected[t]
                 THEN UNCHANGED <<pc, expected, result>>
                 ELSE Return(t, IF call[t].op = "store" THEN NoValue ELSE actual)
    /\ UNCHANGED asked /\ Frame

\* A swap whose loop test is inverted: while (actual == expected).
LargeSwapCasInvertedTest(t) ==
    /\ pc[t] = "L_swap_cas"
    /\ LET r == LargeCompareAndSwap(arm, cell, expected[t], call[t].newValue)
           actual == r.result
       IN  /\ cell' = r.mem
           /\ IF actual = expected[t]
                 THEN /\ pc' = [pc EXCEPT ![t] = "L_swap_read"]
                      /\ expected' = [expected EXCEPT ![t] = NoValue]
                      /\ UNCHANGED result
                 ELSE Return(t, IF call[t].op = "store" THEN NoValue ELSE actual)
    /\ UNCHANGED asked /\ Frame

\* swap: actual = compareAndSwap(dest, expected, newValue);
\* while (actual != expected); return actual.  store discards the value.
LargeSwapCas(t) ==
    /\ pc[t] = "L_swap_cas"
    /\ LET r == LargeCompareAndSwap(arm, cell, expected[t], call[t].newValue)
           actual == r.result
       IN  /\ cell' = r.mem
           /\ IF actual # expected[t]
                 THEN /\ pc' = [pc EXCEPT ![t] = "L_swap_read"]
                      /\ expected' = [expected EXCEPT ![t] = NoValue]
                      /\ UNCHANGED result
                 ELSE Return(t, IF call[t].op = "store" THEN NoValue ELSE actual)
    /\ UNCHANGED asked /\ Frame

LargeLoadStep(t) ==
    /\ pc[t] = "L_load"
    /\ LET r == LargeLoad(arm, cell)
       IN  cell' = r.mem /\ Return(t, r.result)
    /\ UNCHANGED asked /\ Frame

\* fetchAndAdd: expected = load(dest).
LargeFetchAndAddLoad(t) ==
    /\ pc[t] = "L_fetchAndAdd_load"
    /\ LET r == LargeLoad(arm, cell)
       IN  /\ cell' = r.mem
           /\ expected' = [expected EXCEPT ![t] = r.result]
    /\ pc' = [pc EXCEPT ![t] = "L_fetchAndAdd_cas"]
    /\ UNCHANGED <<result, asked>> /\ Frame

\* expected + increment in T.
Sum(a, b, m) == (a + b) % m

\* fetchAndAdd: actual = compareAndSwap(dest, expected, expected + increment);
\* while (actual != expected); return actual.
LargeFetchAndAddCas(t) ==
    /\ pc[t] = "L_fetchAndAdd_cas"
    /\ LET sum == Sum(expected[t], call[t].increment, modulus)
           r == LargeCompareAndSwap(arm, cell, expected[t], sum)
           actual == r.result
       IN  /\ cell' = r.mem
           /\ asked' = asked \cup {sum}
           /\ IF actual # expected[t]
                 THEN /\ pc' = [pc EXCEPT ![t] = "L_fetchAndAdd_load"]
                      /\ expected' = [expected EXCEPT ![t] = NoValue]
                      /\ UNCHANGED result
                 ELSE Return(t, actual)
    /\ Frame

\* One step of thread t inside a call, whichever class and body are built.
NativeStep(t) ==
    \/ NativeCompareAndSwapStep(t)
    \/ NativeSwapXchg(t)
    \/ NativeSwapTestAndSet(t)
    \/ NativeSwapLockRelease(t)
    \/ NativeLoad(t)
    \/ NativeLoadRelaxed(t)
    \/ NativeStore(t)
    \/ NativeFetchAndAddStep(t)

LargeStep(t) ==
    \/ LargeCompareAndSwapStep(t)
    \/ LargeSwapReadFirst(t)
    \/ LargeSwapReadSecond(t)
    \/ LargeSwapCas(t)
    \/ LargeLoadStep(t)
    \/ LargeFetchAndAddLoad(t)
    \/ LargeFetchAndAddCas(t)

\* ---------------------------------------- any calls, any interleaving

\* A cell of either class under either build, holding any value; no call
\* issued yet.
InitOf(threads, calls, mods, builds, classes, inits, note) ==
    /\ arm \in builds
    /\ large \in classes
    /\ modulus \in mods
    /\ cell \in inits
    /\ cell0 = cell
    /\ pc = [t \in threads |-> "idle"]
    /\ call = [t \in threads |-> NoCall]
    /\ expected = [t \in threads |-> NoValue]
    /\ result = [t \in threads |-> NoValue]
    /\ left = [t \in threads |-> calls]
    /\ asked = {cell}
    /\ noted = IF note THEN cell ELSE NoValue
    /\ stale = [t \in threads |-> FALSE]
    /\ data = 0
    /\ ran = [t \in threads |-> <<>>]

\* The values the cell is constructed with: 0, 1 and the largest value.
InitValues == {0, 1, WordMod - 1}

Init ==
    InitOf(Threads, MaxCalls, {WordMod}, BOOLEAN, BOOLEAN, InitValues, FALSE)

AllCalls ==
    CasCalls \cup SwapCalls \cup StoreCalls \cup LoadCalls
        \cup LoadRelaxedCalls \cup FetchAndAddCalls

\* Calls issued so far in a run in which each thread started with n.
RECURSIVE IssuedBy(_, _)
IssuedBy(ts, n) ==
    IF ts = {} THEN 0
    ELSE LET t == CHOOSE x \in ts : TRUE
         IN  (n - left[t]) + IssuedBy(ts \ {t}, n)

Issued == IssuedBy(DOMAIN left, MaxCalls)
ScriptIssued == IssuedBy(DOMAIN left, MaxScriptCalls)

Invoke(t) ==
    /\ Issued < MaxCalls
    /\ \E c \in AllCalls : Begin(t, c)
    /\ UNCHANGED noted

Next ==
    \E t \in Threads : Invoke(t) \/ NativeStep(t) \/ LargeStep(t)

Spec == Init /\ [][Next]_vars

\* ------------------------------------- N concurrent fetchAndAdd(cell, 1)

\* Threads that each call fetchAndAdd(cell, 1) once.
NumAdders == 3

Adders == 1..NumAdders

InitAdders == InitOf(Adders, 1, {WordMod}, BOOLEAN, BOOLEAN, {0}, FALSE)

InvokeFetchAndAddOne(t) ==
    /\ Begin(t, Call("fetchAndAdd", NoValue, NoValue, 1))
    /\ UNCHANGED noted

NextAdders ==
    \E t \in Adders :
        \/ InvokeFetchAndAddOne(t)
        \/ NativeFetchAndAddStep(t)
        \/ LargeFetchAndAddLoad(t)
        \/ LargeFetchAndAddCas(t)

SpecAdders == InitAdders /\ [][NextAdders]_vars

\* ------------------------------- concurrent store and load, oversized T

InitStoreLoad ==
    InitOf(Threads, MaxScriptCalls, {WordMod}, BOOLEAN, {TRUE}, InitValues, FALSE)

InvokeStoreOrLoad(t) ==
    /\ ScriptIssued < MaxScriptCalls
    /\ \E c \in StoreCalls \cup LoadCalls : Begin(t, c)
    /\ UNCHANGED noted

NextStoreLoad ==
    \E t \in Threads :
        \/ InvokeStoreOrLoad(t)
        \/ LargeSwapReadFirst(t)
        \/ LargeSwapReadSecond(t)
        \/ LargeSwapCas(t)
        \/ LargeLoadStep(t)

SpecStoreLoad == InitStoreLoad /\ [][NextStoreLoad]_vars

\* --------------------- an 8-bit counter incremented by two threads

\* Bits of the smallest word type the primary template handles.
ByteBits == 8
ByteMod == 2 ^ ByteBits

\* fetchAndAdd(cell, 1) calls each of the two threads makes.
CallsPerThread == 1000

ByteThreads == {1, 2}

InitByte ==
    InitOf(ByteThreads, CallsPerThread, {ByteMod}, BOOLEAN, {FALSE}, {0}, FALSE)

\* for (i = 0; i < CallsPerThread; i++) fetchAndAdd(&cell, 1);  one pass:
\* the call is a single atomic instruction and its value is discarded.
ByteFetchAndAdd(t) ==
    /\ left[t] > 0
    /\ cell' = NativeFetchAndAdd(arm, cell, 1, modulus).mem
    /\ left' = [left EXCEPT ![t] = @ - 1]
    /\ UNCHANGED <<arm, large, modulus, cell0, pc, call, expected, result,
                   asked, noted, stale, data, ran>>

NextByte == \E t \in ByteThreads : ByteFetchAndAdd(t)

SpecByte == InitByte /\ [][NextByte]_vars

\* ---------------------- store and load with no concurrent writer

InitSeq ==
    InitOf(Threads, MaxScriptCalls, {WordMod}, BOOLEAN, BOOLEAN, InitValues, TRUE)

\* A store is issued only while no call is in progress, a load only while
\* no store is: the caller notes the value it stores.
InvokeStoreAlone(t) ==
    /\ ScriptIssued < MaxScriptCalls
    /\ \A u \in Threads : pc[u] = "idle"
    /\ \E c \in StoreCalls : Begin(t, c) /\ noted' = c.newValue

InvokeLoadNoWriter(t) ==
    /\ ScriptIssued < MaxScriptCalls
    /\ \A u \in Threads : pc[u] = "idle" \/ call[u].op = "load"
    /\ \E c \in LoadCalls : Begin(t, c)
    /\ UNCHANGED noted

NextSeq ==
    \E t \in Threads :
        \/ InvokeStoreAlone(t)
        \/ InvokeLoadNoWriter(t)
        \/ NativeStore(t)
        \/ NativeLoad(t)
        \/ LargeSwapReadFirst(t)
        \/ LargeSwapReadSecond(t)
        \/ LargeSwapCas(t)
        \/ LargeLoadStep(t)

SpecSeq == InitSeq /\ [][NextSeq]_vars

\* ----------------------------------------------- loads and nothing else

InitLoads ==
    InitOf(Threads, MaxScriptCalls, {WordMod}, BOOLEAN, BOOLEAN, InitValues, FALSE)

\* prev = load(cell); ... load(cell): the caller keeps what its previous
\* load returned.
InvokeLoadAgain(t) ==
    /\ \E c \in LoadCalls : Begin(t, c)
    /\ noted' = IF result[t] # NoValue THEN result[t] ELSE noted

NextLoads ==
    \E t \in Threads :
        \/ InvokeLoadAgain(t)
        \/ NativeLoad(t)
        \/ LargeLoadStep(t)

SpecLoads == InitLoads /\ [][NextLoads]_vars

\* ----------------------- N concurrent swaps of pairwise distinct values

\* Threads that each call swap(cell, n) once on an oversized cell.
NumSwappers == 3

Swappers == 1..NumSwappers

InitSwaps == InitOf(Swappers, 1, {WordMod}, BOOLEAN, {TRUE}, InitValues, FALSE)

\* Thread t swaps in the value t: the new values are pairwise distinct, and
\* one of them may be the value the cell starts with.
InvokeSwapOwn(t) ==
    /\ Begin(t, Call("swap", NoValue, t, NoValue))
    /\ UNCHANGED noted

NextSwaps ==
    \E t \in Swappers :
        \/ InvokeSwapOwn(t)
        \/ LargeSwapReadFirst(t)
        \/ LargeSwapReadSecond(t)
        \/ LargeSwapCas(t)

SpecSwaps == InitSwaps /\ [][NextSwaps]_vars

\* ------------- oversized T, finitely many calls, fairly scheduled threads

\* The cell starts with both halves nonzero.
InitLarge ==
    InitOf(Threads, MaxCalls, {WordMod}, BOOLEAN, {TRUE}, {WordMod - 1}, FALSE)

NextLarge ==
    \E t \in Threads : Invoke(t) \/ LargeStep(t)

\* A thread inside a call is not suspended forever: its next step is taken.
\* Nothing obliges a caller to issue a call.
FairThreads == \A t \in Threads : WF_vars(LargeStep(t))

SpecLargeFair == InitLarge /\ [][NextLarge]_vars /\ FairThreads

\* ------------ one swap against writers that store again and again

\* Thread 1 calls swap once; the other threads call store without bound.
Victim == 1
Writers == Threads \ {Victim}

InitStarve ==
    InitOf(Threads, 1, {WordMod}, BOOLEAN, {TRUE}, InitValues, FALSE)

WritersIdle == \A w \in Writers : pc[w] = "idle"

InvokeSwapOnce ==
    /\ \E c \in SwapCalls : Begin(Victim, c)
    /\ UNCHANGED noted

\* The schedule runs the swap's plain read while no store is in progress,
VictimRead ==
    /\ WritersIdle
    /\ LargeSwapReadFirst(Victim) \/ LargeSwapReadSecond(Victim)

\* then lets a writer call store with a value the cell does not hold: a
\* call like any other, except that the writers have no budget of calls,
InvokeStoreBetween(w) ==
    /\ pc[Victim] = "L_swap_cas" /\ expected[Victim] = cell
    /\ WritersIdle
    /\ \E c \in StoreCalls :
          /\ c.newValue # cell
          /\ pc' = [pc EXCEPT ![w] = EntryPc(large, c.op)]
          /\ call' = [call EXCEPT ![w] = c]
          /\ expected' = [expected EXCEPT ![w] = NoValue]
          /\ result' = [result EXCEPT ![w] = NoValue]
          /\ asked' = asked \cup AskedBy(c)
    /\ UNCHANGED <<arm, large, modulus, cell, cell0, left, noted, stale,
                   data, ran>>

\* runs that store to its end,
WriterStep(w) ==
    LargeSwapReadFirst(w) \/ LargeSwapReadSecond(w) \/ LargeSwapCas(w)

\* and only then runs the swap's compareAndSwap.
VictimCas ==
    /\ WritersIdle /\ expected[Victim] # cell
    /\ LargeSwapCas(Victim)

NextStarve ==
    \/ InvokeSwapOnce
    \/ VictimRead
    \/ VictimCas
    \/ \E w \in Writers : InvokeStoreBetween(w) \/ WriterStep(w)

\* The schedule never stops: callers and threads keep going.
SpecStarve == InitStarve /\ [][NextStarve]_vars /\ WF_vars(NextStarve)

\* ------- native-width store and load among ordinary memory accesses

\* The instructions of a thread's program.  A fence is __sync_synchronize()
\* in the ARM bodies and mfence in the x86 ones.
Fence(isArm) ==
    [kind |-> "fence", loc |-> IF isArm THEN "__sync_synchronize" ELSE "mfence",
     val |-> NoValue]
Read(loc) == [kind |-> "read", loc |-> loc, val |-> NoValue]
Write(loc, v) == [kind |-> "write", loc |-> loc, val |-> v]

\* asm volatile ("" ::: "memory"): holds the compiler, not the processor.
CompilerBarrier == [kind |-> "none", loc |-> "none", val |-> NoValue]

\* A store whose first fence is a compiler barrier only.
NativeStoreBodyUnfencedBefore(isArm, v) ==
    <<CompilerBarrier, Write("cell", v), Fence(isArm)>>

\* AtomicIntrinsics<T>::store: fence; *dest = newValue; fence.
NativeStoreBody(isArm, v) ==
    <<Fence(isArm), Write("cell", v), Fence(isArm)>>

\* AtomicIntrinsics<T>::load: fence; result = *value; fence.
NativeLoadBody(isArm) ==
    <<Fence(isArm), Read("cell"), Fence(isArm)>>

Writer == 1
Reader == 2

\* The value the writer stores: the largest value of T.
StoredValue == WordMod - 1

\* data = 1; store(&cell, v); data = 2;
WriterProgram ==
    <<Write("data", 1)>> \o NativeStoreBody(arm, StoredValue)
        \o <<Write("data", 2)>>

\* before = data; loaded = load(&cell); after = data;
ReaderProgram ==
    <<Read("data")>> \o NativeLoadBody(arm) \o <<Read("data")>>

Program(t) == IF t = Writer THEN WriterProgram ELSE ReaderProgram

InitBarrier ==
    /\ arm \in BOOLEAN
    /\ large = FALSE
    /\ modulus = WordMod
    /\ cell \in InitValues
    /\ cell0 = cell
    /\ pc = [t \in {Writer, Reader} |-> "idle"]
    /\ call = [t \in {Writer, Reader} |-> NoCall]
    /\ expected = [t \in {Writer, Reader} |-> NoValue]
    /\ result = [t \in {Writer, Reader} |-> NoValue]
    /\ left = [t \in {Writer, Reader} |-> 0]
    /\ asked = {cell}
    /\ noted = NoValue
    /\ stale = [t \in {Writer, Reader} |-> FALSE]
    /\ data = 0
    /\ ran = [t \in {Writer, Reader} |->
                 [i \in DOMAIN Program(t) |-> NoValue]]

Executed(t, i) == ran[t][i] # NoValue

\* What the processor may do with instruction i of thread t while earlier
\* instructions of the thread are still pending: a fence waits for all of
\* them; a memory access waits for the earlier fences and the earlier
\* accesses to its own location, and for nothing else.
MayTakeEffect(t, i) ==
    LET p == Program(t)
    IN  \A j \in 1..(i - 1) :
            (\/ p[i].kind = "fence"
             \/ p[j].kind = "fence"
             \/ p[j].loc = p[i].loc) => Executed(t, j)

\* Instruction i of thread t takes effect.
TakeEffect(t, i) ==
    /\ ~Executed(t, i)
    /\ MayTakeEffect(t, i)
    /\ LET ins == Program(t)[i]
           mem == IF ins.loc = "cell" THEN cell ELSE data
           v == CASE ins.kind = "read"  -> mem
                  [] ins.kind = "write" -> ins.val
                  [] OTHER              -> 0
       IN  /\ ran' = [ran EXCEPT ![t][i] = v]
           /\ cell' = IF ins.kind = "write" /\ ins.loc = "cell" THEN v ELSE cell
           /\ data' = IF ins.kind = "write" /\ ins.loc = "data" THEN v ELSE data
    /\ UNCHANGED <<arm, large, modulus, cell0, pc, call, expected, result,
                   left, asked, noted, stale>>

NextBarrier ==
    \E t \in {Writer, Reader} : \E i \in DOMAIN Program(t) : TakeEffect(t, i)

SpecBarrier == InitBarrier /\ [][NextBarrier]_vars

\* ------------------------------------------------------------ properties

Procs == DOMAIN pc

\* Thread t returns from its call in this step.
Returns(t) == pc[t] # "idle" /\ pc'[t] = "idle"

\* Thread t has returned from a call and issued none since.
Returned(t) == pc[t] = "idle" /\ call[t].op # "none"

\* C1.  compareAndSwap(cell, e, n), in both classes and both builds: the
\* step that compares sets the cell to n and returns e if and only if the
\* cell held e; otherwise it leaves the cell as it is and returns the value
\* the cell held.
C1_CasContract ==
    [][\A t \in Procs :
          (pc[t] \in {"compareAndSwap", "L_compareAndSwap"} /\ Returns(t)) =>
              LET e == call[t].expected
                  n == call[t].newValue
              IN  IF cell = e
                      THEN cell' = n /\ result'[t] = e
                      ELSE cell' = cell /\ result'[t] = cell /\ result'[t] # e
      ]_vars

\* The largest value of the scaled word: both halves nonzero.
MaxWord == WordMod - 1

\* C1, the scenario (cell 5, CAS(5,7), CAS(5,9)) on the scaled word with the
\* oversized x86 body: the cell held MaxWord, compareAndSwap(MaxWord, 0) has
\* returned MaxWord and written 0, then compareAndSwap(MaxWord, MaxWord) has
\* returned 0 and the cell still holds 0.
C1_Witness ==
    /\ large /\ ~arm /\ cell0 = MaxWord /\ cell = 0
    /\ \E t, u \in Procs :
          /\ t # u /\ Returned(t) /\ Returned(u)
          /\ call[t] = Call("compareAndSwap", MaxWord, 0, NoValue)
          /\ result[t] = MaxWord
          /\ call[u] = Call("compareAndSwap", MaxWord, MaxWord, NoValue)
          /\ result[u] = 0

\* Thread t is in the only call issued so far.
OnlyCallSoFar(t) ==
    /\ pc[t] # "idle"
    /\ \A u \in Procs \ {t} : pc[u] = "idle" /\ call[u].op = "none"
    /\ left[t] = MaxCalls - 1

\* C2.  A swap(cell, n) that runs to completion with no other operation on
\* the cell returns the value the cell held and leaves n in the cell.
C2_SwapAlone ==
    [][\A t \in Procs :
          (OnlyCallSoFar(t) /\ call[t].op = "swap" /\ Returns(t)) =>
              result'[t] = cell0 /\ cell' = call[t].newValue
      ]_vars

\* C3.  The cell holds its initial value or a value some operation was asked
\* to write (a newValue of store, swap or compareAndSwap, a sum computed by
\* fetchAndAdd).
C3_CellHoldsAskedValue == cell \in asked

\* C4.  N concurrent fetchAndAdd(cell, 1) on a cell that starts at 0, both
\* classes and builds: once all have returned the cell holds N and the
\* values returned are exactly 0..N-1, each once (N threads, N values).
C4_FetchAndAddCounts ==
    (\A t \in Procs : Returned(t)) =>
        /\ cell = Cardinality(Procs)
        /\ {result[t] : t \in Procs} = 0..(Cardinality(Procs) - 1)

\* C4: all N calls have returned, on an oversized word, and thread 1 is the
\* one that got the highest value, N-1.
C4_Witness ==
    /\ large
    /\ \A t \in Procs : Returned(t)
    /\ result[1] = Cardinality(Procs) - 1

\* C5.  Oversized word, concurrent store and load only: the value a load
\* returns is the whole value the cell holds at the load's step, and it is
\* the initial value or the newValue of a store; never a mixture of halves.
C5_LoadReturnsWrittenValue ==
    [][\A t \in Procs :
          (pc[t] = "L_load" /\ Returns(t)) =>
              result'[t] = cell /\ result'[t] \in asked
      ]_vars

\* C5: a load has returned while a store holds, from its plain read of the
\* cell, an `expected` mixed from the halves of two different values (one
\* that is neither the initial value nor any store's).
C5_Witness ==
    \E t, u \in Procs :
        /\ pc[t] = "L_swap_cas" /\ call[t].op = "store"
        /\ expected[t] \notin asked
        /\ Returned(u) /\ call[u].op = "load" /\ result[u] # cell0

\* fetchAndAdd calls that have returned in the 8-bit run.
ByteCallsDone == IssuedBy(DOMAIN left, CallsPerThread)

\* C6 as stated: after both threads have made all their fetchAndAdd(cell, 1)
\* calls on the 8-bit cell, the cell holds their number (2000).
C6_FinalIsCallCount ==
    (\A t \in Procs : left[t] = 0) => cell = Cardinality(Procs) * CallsPerThread

\* C6 as amended: the 8-bit cell holds the number of calls made modulo 2^8,
\* at every moment and so at the end (2000 mod 256 = 208).
C6_CounterWraps == cell = ByteCallsDone % ByteMod

\* C6: both threads are done and the cell holds 2000 mod 256.
C6_Witness ==
    /\ \A t \in Procs : left[t] = 0
    /\ cell = (Cardinality(Procs) * CallsPerThread) % ByteMod
    /\ cell # Cardinality(Procs) * CallsPerThread

\* The reference model: each operation is one atomic step on the cell.
RefCell(c, v, m) ==
    CASE c.op = "compareAndSwap" -> IF v = c.expected THEN c.newValue ELSE v
      [] c.op = "swap"           -> c.newValue
      [] c.op = "store"          -> c.newValue
      [] c.op = "fetchAndAdd"    -> (v + c.increment) % m
      [] OTHER                   -> v

RefResult(c, v) == IF c.op = "store" THEN NoValue ELSE v

\* C7.  On an oversized cell every step of the emulated operations is a step
\* of the reference model: the step in which a call returns changes the cell
\* and yields the result as that call's single atomic step would, and every
\* other step leaves the cell as it is.
C7_EmulatedRefinesAtomic ==
    [][large =>
          /\ \A t \in Procs :
                Returns(t) => /\ cell' = RefCell(call[t], cell, modulus)
                              /\ result'[t] = RefResult(call[t], cell)
          /\ (\A t \in Procs : ~Returns(t)) => cell' = cell
      ]_vars

\* C7: on an oversized cell a swap and a fetchAndAdd(cell, -1) of two
\* threads have both returned, the swap having returned the sum the
\* fetchAndAdd wrote (the initial value minus 1) and left its newValue.
C7_Witness ==
    /\ large
    /\ \E t, u \in Procs :
          /\ Returned(t) /\ call[t].op = "swap"
          /\ Returned(u) /\ call[u].op = "fetchAndAdd"
          /\ call[u].increment = MaxWord
          /\ result[u] = cell0
          /\ result[t] = (cell0 + MaxWord) % modulus
          /\ cell = call[t].newValue /\ cell # result[t]

\* C8.  With no concurrent writer, in both classes, a load returns the value
\* of the most recent completed store, or the initial value.
C8_LoadReturnsLastStore ==
    [][\A t \in Procs :
          (call[t].op = "load" /\ Returns(t)) => result'[t] = noted
      ]_vars

\* C8: on the oversized path store(cell, 0) on a cell that did not hold 0,
\* then load(cell), which returned 0.
C8_Witness ==
    /\ large /\ cell0 # 0 /\ noted = 0
    /\ \E t \in Procs : Returned(t) /\ call[t].op = "load" /\ result[t] = 0

\* C9.  The oversized load never changes the cell, whatever it holds and
\* whatever the other threads are doing.
C9_LoadLeavesCell ==
    [][\A t \in Procs :
          (pc[t] \in {"L_load", "L_fetchAndAdd_load"} /\ pc'[t] # pc[t]) =>
              cell' = cell
      ]_vars

\* C9: an oversized load has returned 0 from a cell holding 0 (its
\* compareAndSwap succeeded) while another thread is inside a call.
C9_Witness ==
    /\ large /\ cell = 0
    /\ \E t, u \in Procs :
          /\ Returned(t) /\ call[t].op = "load" /\ result[t] = 0
          /\ pc[u] # "idle"

\* C10.  Loads with no write between them, by the same or different
\* threads, in both classes: a load returns what the caller's previous load
\* returned and what every other thread's last load returned.
C10_LoadsAgree ==
    [][\A t \in Procs :
          Returns(t) =>
              /\ noted # NoValue => result'[t] = noted
              /\ \A u \in Procs : Returned(u) => result'[t] = result[u]
      ]_vars

\* C10: on an oversized cell holding 0 a thread's second load has returned,
\* and so has another thread's load.
C10_Witness ==
    /\ large /\ cell0 = 0
    /\ \E t, u \in Procs :
          /\ t # u
          /\ Returned(t) /\ noted # NoValue /\ left[t] <= MaxScriptCalls - 2
          /\ Returned(u)

\* C11.  In the oversized swap and fetchAndAdd loops the compareAndSwap of
\* an iteration during which no other thread changed the cell's value (from
\* the iteration's first read of the cell on) succeeds and ends the loop;
\* an iteration goes back to the read only if the cell was changed.
C11_RetryOnlyIfChanged ==
    [][\A t \in Procs :
          (pc[t] \in {"L_swap_cas", "L_fetchAndAdd_cas"} /\ pc'[t] # pc[t]) =>
              /\ ~stale[t] => Returns(t)
              /\ pc'[t] \in {"L_swap_read", "L_fetchAndAdd_load"} => stale[t]
      ]_vars

\* C11: a fetchAndAdd(cell, -1) on an oversized cell holding 1 has returned
\* MaxWord, the value another thread's store wrote; 0, the sum of its first
\* iteration, is among the values asked for, so that iteration's
\* compareAndSwap was made, and it failed.
C11_Witness ==
    /\ large /\ cell0 = 1 /\ 0 \in asked
    /\ \E t, u \in Procs :
          /\ Returned(t) /\ call[t] = Call("fetchAndAdd", NoValue, NoValue, MaxWord)
          /\ result[t] = MaxWord
          /\ Returned(u) /\ call[u] = Call("store", NoValue, MaxWord, NoValue)
          /\ cell = MaxWord - 1

\* C13.  Whichever class is in force, each of the six operations
\* (compareAndSwap, swap, load, loadRelaxed, store, fetchAndAdd) is declared
\* by it, so a caller can issue any of them.
C13_SameOperationSet == \A c \in AllCalls : Declared(large, c.op)

\* C15.  Concurrent swaps of pairwise distinct new values on an oversized
\* cell: at every moment, and so once all have returned, the values returned
\* together with the value in the cell are, as a multiset, the initial value
\* together with the new values of the swaps that have returned; no value is
\* lost and none appears twice.
C15_NoLostUpdate ==
    \A v \in Values :
        Cardinality({t \in Procs : Returned(t) /\ result[t] = v})
                + (IF cell = v THEN 1 ELSE 0)
            = Cardinality({t \in Procs : Returned(t) /\ call[t].newValue = v})
                + (IF cell0 = v THEN 1 ELSE 0)

\* C15: all swaps but one have returned, and the last one holds, from the
\* two halves its plain read took at different instants, an `expected` that
\* the cell never held (neither the initial value nor any new value).
C15_Witness ==
    \E t \in Procs :
        /\ pc[t] = "L_swap_cas" /\ expected[t] \notin asked
        /\ \A u \in Procs \ {t} : Returned(u)

\* Thread t is inside a swap, a store or a fetchAndAdd.
InLoopCall(t) ==
    pc[t] # "idle" /\ call[t].op \in {"swap", "store", "fetchAndAdd"}

\* C16.  Oversized T, finitely many calls in all, every thread scheduled
\* fairly: every swap, store and fetchAndAdd that is invoked returns; as
\* the calls are finitely many, from some moment on no thread is inside
\* one.
C16_LoopCallsReturn == <>[](\A t \in Threads : ~InLoopCall(t))

\* C16: a fetchAndAdd(cell, -1) has returned 0, the value another thread's
\* store wrote, and left -1 in the cell; the sum of its first iteration
\* (the initial value minus 1) is among the values asked for, so the
\* compareAndSwap of that iteration was made, failed, and the loop went on
\* to return.
C16_Witness ==
    /\ (cell0 + MaxWord) % modulus \in asked
    /\ \E t, u \in Procs :
          /\ Returned(t) /\ call[t] = Call("fetchAndAdd", NoValue, NoValue, MaxWord)
          /\ result[t] = 0
          /\ Returned(u) /\ call[u] = Call("store", NoValue, 0, NoValue)
          /\ cell = MaxWord

\* The swap's compareAndSwap fails and the loop goes back to the read.
Retries(t) == pc[t] = "L_swap_cas" /\ pc'[t] = "L_swap_read"

\* C12.  Every execution of the schedule in which a store is completed
\* within each iteration of the swap is a fair one (each thread that can
\* take a step does take it), the swap retries again and again and never
\* returns, and the cell holds at every moment the initial value or a
\* value a call was asked to write.
C12_SwapStarves ==
    /\ FairThreads
    /\ []<><<Retries(Victim)>>_vars
    /\ [](~Returned(Victim))
    /\ [](cell \in asked)

\* C12: the swap is back at its plain read after a failed compareAndSwap:
\* a store, begun after the swap's read, has returned and the cell holds
\* its value, not the one the swap read.
C12_Witness ==
    /\ pc[Victim] = "L_swap_read" /\ call[Victim].op = "swap"
    /\ \E w \in Procs \ {Victim} :
          Returned(w) /\ call[w].op = "store" /\ cell = call[w].newValue

\* The instruction of thread t's program that accesses the cell.
CellAccess(t) == CHOOSE i \in DOMAIN Program(t) : Program(t)[i].loc = "cell"

\* What the reader's program got: data before its load, the value its load
\* returned, data after its load (NoValue while not yet read).
Before == ran[Reader][1]
Loaded == ran[Reader][CellAccess(Reader)]
After == ran[Reader][Len(ReaderProgram)]

\* C14.  Native-width store and load, both builds.  The writer writes data,
\* calls store(cell, v) on a cell that does not hold v, and writes data
\* again; the reader reads data, calls load(cell), and reads data again.
\* If the load returned v then the reader's later read of data observes the
\* writer's earlier write; if the reader's earlier read observed the
\* writer's later write then the load returns v; and no access of a thread
\* takes effect on the other side of its store or load: the accesses
\* before it have taken effect when it does, and it has when a later one
\* does.
C14_StoreLoadOrder ==
    /\ (cell0 # StoredValue /\ Loaded = StoredValue /\ After # NoValue)
            => After \in {1, 2}
    /\ (Before = 2 /\ Loaded # NoValue) => Loaded = StoredValue
    /\ \A t \in DOMAIN ran : \A i, j \in DOMAIN Program(t) :
            (i < j /\ CellAccess(t) \in {i, j} /\ Executed(t, j)
                /\ Program(t)[i].kind \in {"read", "write"}
                /\ Program(t)[j].kind \in {"read", "write"})
                    => Executed(t, i)

\* C14: the load returned the stored value (which the cell did not hold at
\* first), the reader's read before the load saw data untouched and its
\* read after the load saw the writer's first write.
C14_Witness ==
    /\ cell0 # StoredValue /\ Loaded = StoredValue
    /\ Before = 0 /\ After = 1

====
